---- MODULE Spec2Model ----
(***************************************************************************)
(* Model of rtk/task.py: the Task contract (check, process, output_files)  *)
(* and its six variants, run over a small filesystem.                      *)
(*                                                                         *)
(* Representation.                                                         *)
(*   - a path "dir/name.ext" is the triple <<dir, name, ext>>;             *)
(*   - a IIIF image URL "srv/ident/region/size/rotation/quality.fmt" is    *)
(*     the tuple of its "/"-separated segments;                            *)
(*   - a command template is the sequence of its characters;               *)
(*   - a file is "none" (absent), "good" (present, passes the content or   *)
(*     filename validation) or "bad" (present, fails it: a partial         *)
(*     download, an ill-formed or not yet normalised serialisation).       *)
(***************************************************************************)
EXTENDS Naturals, Sequences, FiniteSets, TLC

\* ------------------------------------------------------------- bounds
MaxLen == 2          \* longest input list of the general specification
MaxWorkers == 2      \* largest multiprocess argument
MaxCalls == 2        \* check()/process() calls made on one task object
MaxTasks == 2        \* task objects constructed over the same inputs
MaxExt == 1          \* external changes of the filesystem

\* ------------------------------------------------------- task variants
IMG == "DownloadIIIFImageTask"
MAN == "DownloadIIIFManifestTask"
KRA == "KrakenLikeCommand"
CLN == "KrakenAltoCleanUpCommand"
CLR == "ClearFileCommand"
EXT == "ExtractZoneAltoCommand"
Kinds == {IMG, MAN, KRA, CLN, CLR, EXT}

\* --------------------------------------------------------- small helpers
Range(s) == {s[j] : j \in 1..Len(s)}

RECURSIVE Dedup(_)
\* first occurrences of s, in order: the key order of a dict filled from s
Dedup(s) ==
    IF s = <<>> THEN <<>>
    ELSE LET h == Dedup(SubSeq(s, 1, Len(s) - 1))
             x == s[Len(s)]
         IN IF x \in Range(h) THEN h ELSE Append(h, x)

RECURSIVE Filter(_, _)
\* the elements of s that lie in the set keep, in order
Filter(s, keep) ==
    IF s = <<>> THEN <<>>
    ELSE LET h == Filter(SubSeq(s, 1, Len(s) - 1), keep)
             x == s[Len(s)]
         IN IF x \in keep THEN Append(h, x) ELSE h

RECURSIVE SeqsUpTo(_, _)
\* the sequences over S of length at most n
SeqsUpTo(S, n) ==
    IF n = 0 THEN {<<>>}
    ELSE LET T == SeqsUpTo(S, n - 1)
         IN T \cup {Append(t, x) : t \in {u \in T : Len(u) = n - 1}, x \in S}

Put(f, k, v) == [x \in DOMAIN f \cup {k} |-> IF x = k THEN v ELSE f[x]]

Exists(files, p) == files[p] # "none"

\* -------------------------------------------------- command templates
None == [isNone |-> TRUE, text |-> <<>>]
Some(t) == [isNone |-> FALSE, text |-> t]

OutPlaceholder == <<"$", "o", "u", "t">>

\* Python's `sub in s` on strings
Contains(s, sub) ==
    \E j \in 1..(Len(s) + 1) :
        /\ j + Len(sub) - 1 <= Len(s)
        /\ SubSeq(s, j, j + Len(sub) - 1) = sub

Templates ==
    { None,
      Some(<<"k", " ", "$", " ", "$", "o", "u", "t">>),
      Some(<<"k", " ", "$">>),
      Some(<<"$", "o", "u", " ", "t">>),
      Some(<<>>) }

\* ------------------------------------------------------------- inputs
Url(ident, region) == <<"srv", ident, region, "max", "0", "default.jpg">>

ImgInputs == { <<Url("i1", "full"), "d">>, <<Url("i2", "full"), "d">> }
ManInputs == { "m1", "m2" }
KraInputs == { <<".", "a", "jpg">>, <<".", "b", "jpg">> }
ClnInputs == { <<".", "a", "xml">>, <<".", "b", "xml">> }
ClrInputs == { <<".", "a", "jpg">>, <<".", "b", "jpg">> }
ExtInputs == { <<".", "a", "xml">>, <<".", "b", "xml">> }

InputsOf(k) ==
    CASE k = IMG -> ImgInputs
      [] k = MAN -> ManInputs
      [] k = KRA -> KraInputs
      [] k = CLN -> ClnInputs
      [] k = CLR -> ClrInputs
      [] k = EXT -> ExtInputs

\* ------------------------------------------------------- output naming
\* os.path.splitext(p)[0] + "." + ext
ChangeExt(p, ext) == <<p[1], p[2], ext>>

\* DownloadIIIFImageTask.rename_download: join(file[1], file[0].split("/")[-5] + ".jpg")
rename_download(file) == <<file[2], file[1][Len(file[1]) - 4], "jpg">>

\* the name of the file the downstream stage leaves for an image input
DownstreamFile(inp) == ChangeExt(rename_download(inp), "xml")

\* utils.string_to_hash, the default naming_function
string_to_hash(file) == IF file = "m1" THEN "h1" ELSE "h2"

\* DownloadIIIFManifestTask.rename_download
manifest_rename_download(file) == <<".", string_to_hash(file), "csv">>

\* KrakenLikeCommand.rename
rename(inp) == ChangeExt(inp, "xml")

\* ExtractZoneAltoCommand.rename
extract_rename(inp) == ChangeExt(inp, "txt")

\* the path whose state decides whether inp is done, for each variant
Target(k, inp) ==
    CASE k = IMG -> rename_download(inp)
      [] k = MAN -> manifest_rename_download(inp)
      [] k = KRA -> rename(inp)
      [] k = CLN -> inp
      [] k = CLR -> inp
      [] k = EXT -> extract_rename(inp)

PathsOf(k) ==
    {Target(k, x) : x \in InputsOf(k)}
        \cup (IF k = IMG THEN {DownstreamFile(x) : x \in ImgInputs} ELSE {})

\* -------------------------------------------------------------- state
VARIABLES
    kind,               \* the Task subclass
    input_files,        \* Task.input_files
    command,            \* Task.command
    allow_failure,      \* KrakenLikeCommand.allow_failure
    check_content,      \* KrakenLikeCommand.check_content
    downstream_check,   \* DownloadIIIFImageTask.downstream_check: "none", or the
                        \* predicate of check_downstream_task: "exists", "content"
    workers,            \* Task.workers
    _checked_files,     \* Task._checked_files, the CompletionMap
    _output_files,      \* the variant's _output_files list
    fs,                 \* the filesystem: path -> "none" | "good" | "bad"
    pc,                 \* where the caller thread is: "new", "idle", "map" (in the
                        \* loop over executor.map), "intr" (interrupted), "join"
                        \* (leaving the `with` block), "raised"
    ret,                \* what the last call returned: "True", "False", "None", "raise"
    raised,             \* the exception a constructor or process() raised
    inputs,             \* _process: its inputs argument (requires_processing)
    fut,                \* executor: each future's state
    res,                \* executor: each finished future's result
    nxt,                \* executor.map: index of the next result the caller takes
    done,               \* _process: its local list done
    interrupted,        \* a KeyboardInterrupt reached _process in this call
    calls,              \* check()/process() calls made so far
    ntasks,             \* task objects constructed so far
    nchanges,           \* external filesystem changes so far
    lastOp,             \* the last call completed on this object: "check", "process"
    nothing,            \* the last process() printed "Nothing to process here."
    prev,               \* the object as the previous call left it
    changed,            \* the filesystem changed externally since the last call
    fresh,              \* no file changed since the last check pass ended
    lateStart,          \* a work item was started after a failed item had finished
                        \* or after a KeyboardInterrupt had arrived
    first               \* what the previous task object reported, for a resumed run

cfgVars == <<kind, input_files, command, allow_failure, check_content,
             downstream_check>>
objVars == <<workers, _checked_files, _output_files>>
poolVars == <<inputs, fut, res, nxt, done, interrupted, lateStart>>
histVars == <<calls, ntasks, nchanges, lastOp, nothing, prev, changed, fresh, first>>
vars == <<cfgVars, objVars, fs, pc, ret, raised, poolVars, histVars>>

EmptyMap == [x \in {} |-> FALSE]
NoPrev == [op |-> "", out |-> <<>>, cf |-> EmptyMap, fs |-> EmptyMap, quiet |-> FALSE]
NoFirst == [set |-> FALSE, out |-> <<>>, alldone |-> FALSE, worked |-> FALSE]

\* ------------------------------------------------- completion checks
\* the predicate returned by DownloadIIIFImageTask.check_downstream_task
check_downstream_task(inp) ==
    LET filename == DownstreamFile(inp)
    IN IF ~Exists(fs, filename) THEN FALSE
       ELSE IF downstream_check = "content" THEN fs[filename] = "good"
       ELSE TRUE

\* utils.check_content / utils.check_kraken_filename: the validation of a file
check_file(p) == fs[p] = "good"

\* ImgCheckItem without its downstream branch
ImgCheckItemNoDownstream(st, file) ==
    IF Exists(fs, rename_download(file))
    THEN [st EXCEPT !.cf = Put(st.cf, file, TRUE), !.of = Append(st.of, file)]
    ELSE [st EXCEPT !.cf = Put(st.cf, file, FALSE), !.all_done = FALSE]

\* One pass of each variant's loop over input_files.  st is the loop's state:
\* cf (_checked_files), of (_output_files) and all_done.
ImgCheckItem(st, file) ==
    LET out_file == rename_download(file)
    IN IF Exists(fs, out_file)
       THEN [st EXCEPT !.cf = Put(st.cf, file, TRUE), !.of = Append(st.of, file)]
       ELSE IF downstream_check # "none"
       THEN LET d == check_downstream_task(file)
            IN [st EXCEPT !.cf = Put(st.cf, file, d),
                          !.all_done = IF d THEN st.all_done ELSE FALSE]
       ELSE [st EXCEPT !.cf = Put(st.cf, file, FALSE), !.all_done = FALSE]

ManCheckItem(st, file) ==
    IF Exists(fs, manifest_rename_download(file))
    THEN [st EXCEPT !.cf = Put(st.cf, file, TRUE)]
    ELSE [st EXCEPT !.cf = Put(st.cf, file, FALSE), !.all_done = FALSE]

\* KraCheckItem with the content check left out
KraCheckItemExistsOnly(st, inp) ==
    IF Exists(fs, rename(inp))
    THEN [st EXCEPT !.cf = Put(st.cf, inp, TRUE)]
    ELSE [st EXCEPT !.cf = Put(st.cf, inp, FALSE), !.all_done = FALSE]

KraCheckItem(st, inp) ==
    LET out == rename(inp)
    IN IF Exists(fs, out)
       THEN [st EXCEPT !.cf = Put(st.cf, inp,
                                  IF check_content THEN check_file(out) ELSE TRUE)]
       ELSE [st EXCEPT !.cf = Put(st.cf, inp, FALSE), !.all_done = FALSE]

ClnCheckItem(st, inp) ==
    IF Exists(fs, inp)
    THEN [st EXCEPT !.cf = Put(st.cf, inp, check_file(inp))]
    ELSE [st EXCEPT !.cf = Put(st.cf, inp, FALSE), !.all_done = FALSE]

ClrCheckItem(st, file) ==
    IF ~Exists(fs, file)
    THEN [st EXCEPT !.cf = Put(st.cf, file, TRUE)]
    ELSE [st EXCEPT !.cf = Put(st.cf, file, FALSE), !.all_done = FALSE]

ExtCheckItem(st, file) ==
    IF Exists(fs, extract_rename(file))
    THEN [st EXCEPT !.cf = Put(st.cf, file, TRUE)]
    ELSE [st EXCEPT !.cf = Put(st.cf, file, FALSE), !.all_done = FALSE]

\* CheckItem keeping an entry that an earlier pass set to done
CheckItemTrusting(st, file) ==
    IF file \in DOMAIN st.cf /\ st.cf[file] THEN st
    ELSE CASE kind = IMG -> ImgCheckItem(st, file)
           [] kind = MAN -> ManCheckItem(st, file)
           [] kind = KRA -> KraCheckItem(st, file)
           [] kind = CLN -> ClnCheckItem(st, file)
           [] kind = CLR -> ClrCheckItem(st, file)
           [] kind = EXT -> ExtCheckItem(st, file)

CheckItem(st, file) ==
    CASE kind = IMG -> ImgCheckItem(st, file)
      [] kind = MAN -> ManCheckItem(st, file)
      [] kind = KRA -> KraCheckItem(st, file)
      [] kind = CLN -> ClnCheckItem(st, file)
      [] kind = CLR -> ClrCheckItem(st, file)
      [] kind = EXT -> ExtCheckItem(st, file)

RECURSIVE CheckLoop(_, _)
\* the loop `for file in self.input_files`, from its j-th item on
CheckLoop(st, j) ==
    IF j > Len(input_files) THEN st
    ELSE CheckLoop(CheckItem(st, input_files[j]), j + 1)

\* the keys of a dict filled from input_files, in insertion order
Keys(cf) == Filter(Dedup(input_files), DOMAIN cf)

\* KraExtend extending with nothing
KraExtendNothing(st) == st

\* KrakenLikeCommand.check, after its loop:
\* self._output_files.extend([inp for inp, status in self._checked_files.items() if status])
KraExtend(st) ==
    [st EXCEPT !.of = st.of \o Filter(Keys(st.cf), {x \in DOMAIN st.cf : st.cf[x]})]

\* check(): the object's _checked_files and _output_files after it, and its result
check ==
    LET st == CheckLoop([cf |-> _checked_files, of |-> _output_files,
                         all_done |-> TRUE], 1)
    IN IF kind = KRA THEN KraExtend(st) ELSE st

\* --------------------------------------------------------- output_files
\* utils.download_iiif_manifest's index of a manifest: its rows (uri, directory)
Rows(file) ==
    IF file = "m1" THEN << <<Url("i1", "full"), "d">>, <<Url("i2", "full"), "d">> >>
    ELSE << <<Url("i2", "full"), "d">> >>

\* ManOutput answering from the CompletionMap, not the disk: the first row of
\* each input marked done
ManOutputCached(j) ==
    IF j = 0 THEN <<>>
    ELSE LET h == SubSeq(input_files, 1, j)
         IN [i \in 1..Len(Filter(h, {x \in DOMAIN _checked_files : _checked_files[x]})) |->
                Rows(Filter(h, {x \in DOMAIN _checked_files : _checked_files[x]})[i])[1]]

RECURSIVE ManOutput(_)
\* DownloadIIIFManifestTask.output_files over the first j inputs
ManOutput(j) ==
    IF j = 0 THEN <<>>
    ELSE ManOutput(j - 1) \o
         (IF Exists(fs, manifest_rename_download(input_files[j]))
          THEN Rows(input_files[j]) ELSE <<>>)

\* what rename_download raises on an entry that is a path string, not a pair
IndexError == << <<"IndexError">> >>

\* DownloadIIIFImageTask.output_files: rename_download over _output_files; an
\* entry appended from done is the string utils.download returned, whose [0] is
\* one character, so that split("/")[-5] raises IndexError
ImgOutput(of) ==
    IF \E j \in 1..Len(of) : Len(of[j]) = 3 THEN IndexError
    ELSE [j \in 1..Len(of) |-> rename_download(of[j])]

\* the output_files property of the object whose lists are of and whose inputs
\* are input_files
OutputFilesOf(of) ==
    CASE kind = IMG -> ImgOutput(of)
      [] kind = MAN -> ManOutput(Len(input_files))
      [] kind = KRA -> [j \in 1..Len(of) |-> rename(of[j])]
      [] kind = CLN -> input_files
      [] kind = CLR -> <<>>
      [] kind = EXT -> [j \in 1..Len(input_files) |-> extract_rename(input_files[j])]

output_files == OutputFilesOf(_output_files)

\* CommandError testing for the input placeholder "$" instead of "$out"
CommandErrorDollar(cmd) ==
    IF cmd.isNone THEN "TypeError"
    ELSE IF ~Contains(cmd.text, <<"$">>) THEN "NameError"
    ELSE ""

\* KrakenLikeCommand.__init__'s test `"$out" not in self.command`: the exception
\* it ends in, "" when it passes
CommandError(cmd) ==
    IF cmd.isNone THEN "TypeError"
    ELSE IF ~Contains(cmd.text, OutPlaceholder) THEN "NameError"
    ELSE ""

\* ------------------------------------------------------- initial state
\* the files the task reads or writes: its inputs' targets and, under a
\* downstream check, the downstream files
Watched ==
    {Target(kind, x) : x \in Range(input_files)}
        \cup (IF kind = IMG /\ downstream_check # "none"
              THEN {DownstreamFile(x) : x \in Range(input_files)} ELSE {})

\* the states of file p the task can tell apart: "bad" differs from "good" only
\* where a validation reads the content, or for an image (a partial download)
FileStates(p) ==
    IF p \notin Watched THEN {"none"}
    ELSE IF kind = IMG /\ p[3] = "xml"
    THEN (IF downstream_check = "content" THEN {"none", "good", "bad"}
          ELSE {"none", "good"})
    ELSE IF kind \in {IMG, CLN} \/ (kind = KRA /\ check_content)
    THEN {"none", "good", "bad"}
    ELSE {"none", "good"}

\* the states p starts in: an image is absent or whole, a partial one is the
\* trace of a download
InitStates(p) ==
    IF kind = IMG /\ p[3] = "jpg" THEN FileStates(p) \ {"bad"} ELSE FileStates(p)

InitConfig(templates, maxlen) ==
    /\ kind \in Kinds
    /\ input_files \in SeqsUpTo(InputsOf(kind), maxlen)
    /\ command \in (IF kind = KRA THEN templates ELSE {None})
    /\ allow_failure \in (IF kind = KRA THEN BOOLEAN ELSE {TRUE})
    /\ check_content \in (IF kind = KRA THEN BOOLEAN ELSE {FALSE})
    /\ downstream_check \in (IF kind = IMG THEN {"none", "exists", "content"}
                             ELSE {"none"})
    /\ fs \in {f \in [PathsOf(kind) -> {"none", "good", "bad"}] :
                 \A p \in PathsOf(kind) : f[p] \in InitStates(p)}

InitRest ==
    /\ workers = 0
    /\ _checked_files = EmptyMap
    /\ _output_files = <<>>
    /\ pc = "new"
    /\ ret = ""
    /\ raised = ""
    /\ inputs = <<>>
    /\ fut = <<>>
    /\ res = <<>>
    /\ nxt = 1
    /\ done = <<>>
    /\ interrupted = FALSE
    /\ lateStart = FALSE
    /\ calls = 0
    /\ ntasks = 0
    /\ nchanges = 0
    /\ lastOp = ""
    /\ nothing = FALSE
    /\ prev = NoPrev
    /\ changed = FALSE
    /\ fresh = FALSE
    /\ first = NoFirst

\* every way to configure a task, the command templates that fail included
InitAny == InitConfig(Templates, MaxLen) /\ InitRest

\* the tasks whose construction succeeds
Init == InitConfig({t \in Templates : CommandError(t) = ""}, MaxLen) /\ InitRest

\* inputs that differ and are given the same output path: two image URLs of one
\* identifier that differ in their region, two files that differ in extension
CollidingInputs(k) ==
    IF k = IMG THEN { <<Url("i1", "full"), "d">>, <<Url("i1", "sq"), "d">> }
    ELSE { <<".", "a", "jpg">>, <<".", "a", "png">> }

\* tasks of the two variants that derive the output path from a part of the
\* input, over such inputs
InitCollide ==
    /\ kind \in {IMG, KRA}
    /\ input_files \in SeqsUpTo(CollidingInputs(kind), MaxLen)
    /\ command \in (IF kind = KRA THEN {t \in Templates : CommandError(t) = ""}
                    ELSE {None})
    /\ allow_failure \in (IF kind = KRA THEN BOOLEAN ELSE {TRUE})
    /\ check_content = FALSE
    /\ downstream_check = "none"
    /\ fs \in {f \in [PathsOf(kind) -> {"none", "good", "bad"}] :
                 \A p \in PathsOf(kind) : f[p] \in InitStates(p)}
    /\ InitRest

\* ---------------------------------------------------------- constructor
\* Task.__init__ and the subclass's __init__: a new task object over the
\* configured arguments; multiprocess is 0 for None
Construct(multiprocess) ==
    /\ pc \in {"new", "idle"}
    /\ ntasks < MaxTasks
    /\ pc = "idle" => lastOp # ""
    /\ LET err == IF kind = KRA THEN CommandError(command) ELSE ""
       IN /\ raised' = err
          /\ pc' = IF err = "" THEN "idle" ELSE "raised"
    /\ workers' = IF multiprocess = 0 THEN 1 ELSE multiprocess
    /\ _checked_files' = EmptyMap
    /\ _output_files' = <<>>
    /\ ntasks' = ntasks + 1
    /\ first' = IF pc = "idle" /\ lastOp = "process" /\ ~changed
                THEN [set |-> TRUE, out |-> output_files,
                      alldone |-> \A x \in Range(input_files) : check.cf[x],
                      worked |-> ~nothing]
                ELSE NoFirst
    /\ lastOp' = ""
    /\ nothing' = FALSE
    /\ prev' = NoPrev
    /\ ret' = ""
    /\ inputs' = <<>> /\ fut' = <<>> /\ res' = <<>> /\ nxt' = 1 /\ done' = <<>>
    /\ interrupted' = FALSE
    /\ lateStart' = FALSE
    /\ fresh' = FALSE
    /\ UNCHANGED <<cfgVars, fs, calls, nchanges, changed>>

\* ------------------------------------------------------------- check()
\* a call of check() by the task's user
Check ==
    /\ pc = "idle"
    /\ calls < MaxCalls
    /\ LET st == check
       IN /\ _checked_files' = st.cf
          /\ _output_files' = st.of
          /\ ret' = IF st.all_done THEN "True" ELSE "False"
    /\ prev' = [op |-> lastOp, out |-> output_files, cf |-> _checked_files,
                fs |-> fs, quiet |-> ~changed]
    /\ lastOp' = "check"
    /\ calls' = calls + 1
    /\ changed' = FALSE
    /\ fresh' = TRUE
    /\ nothing' = FALSE
    /\ inputs' = <<>> /\ fut' = <<>> /\ res' = <<>> /\ nxt' = 1 /\ done' = <<>>
    /\ interrupted' = FALSE
    /\ lateStart' = FALSE
    /\ UNCHANGED <<cfgVars, workers, fs, pc, raised, ntasks, nchanges, first>>

\* ------------------------------------------------------------ process()
\* requires_processing without its `if not status`
requires_processing_all(cf) == Keys(cf)

\* Task.process: [file for file, status in self._checked_files.items() if not status]
requires_processing(cf) == Filter(Keys(cf), {x \in DOMAIN cf : ~cf[x]})

\* a future's result: a value, None or an exception; rc is the exit code of the
\* item's command (0 where there is no command)
NoRes == [tag |-> "", v |-> <<>>, rc |-> 0]
Val(v) == [tag |-> "val", v |-> v, rc |-> 0]
NoneRes == [tag |-> "none", v |-> <<>>, rc |-> 0]
Exc(name) == [tag |-> "exc", v |-> <<name>>, rc |-> 0]

ResetPool ==
    /\ inputs' = <<>> /\ fut' = <<>> /\ res' = <<>> /\ nxt' = 1 /\ done' = <<>>
    /\ interrupted' = FALSE

\* process() up to the point where _process has handed its inputs to
\* executor.map, which submits every item at once; or, with nothing pending, the
\* whole call
ProcessCall ==
    /\ pc = "idle"
    /\ calls < MaxCalls
    /\ LET st == check
           rp == requires_processing(st.cf)
       IN /\ _checked_files' = st.cf
          /\ _output_files' = st.of
          /\ IF rp = <<>>
             THEN /\ nothing' = TRUE
                  /\ ret' = "True"
                  /\ lastOp' = "process"
                  /\ ResetPool
                  /\ pc' = "idle"
             ELSE /\ nothing' = FALSE
                  /\ ret' = ""
                  /\ lastOp' = ""
                  /\ inputs' = rp
                  /\ fut' = [j \in 1..Len(rp) |-> "PENDING"]
                  /\ res' = [j \in 1..Len(rp) |-> NoRes]
                  /\ nxt' = 1
                  /\ done' = <<>>
                  /\ interrupted' = FALSE
                  /\ pc' = "map"
    /\ prev' = [op |-> lastOp, out |-> output_files, cf |-> _checked_files,
                fs |-> fs, quiet |-> ~changed]
    /\ calls' = calls + 1
    /\ changed' = FALSE
    /\ fresh' = TRUE
    /\ lateStart' = FALSE
    /\ UNCHANGED <<cfgVars, workers, fs, raised, ntasks, nchanges, first>>

\* ------------------------------------------------------ work functions
\* Each is the set of ways one call can end: the state it leaves its file in
\* ("keep": as it was) and what it returns to executor.map.
ExitCodes == {0, 1, 2}

\* utils.download((url, target)): the fetched file and its path, or a failure
\* that leaves the partial file or nothing
download(file) ==
    { [file |-> "good", res |-> Val(rename_download(file))],
      [file |-> "bad", res |-> NoneRes],
      [file |-> "none", res |-> NoneRes] }

\* utils.download_iiif_manifest((url, target)): the index written, or nothing
download_iiif_manifest(file) ==
    { [file |-> "good", res |-> Val(manifest_rename_download(file))],
      [file |-> "keep", res |-> NoneRes] }

\* what the external command leaves at its output path: nothing new, a valid
\* file, or (told apart only under check_content) an invalid one
Effects == IF check_content THEN {"keep", "good", "bad"} ELSE {"keep", "good"}

\* the result of work(sample) for an exit code of the command
WorkResult(sample, returncode) ==
    IF returncode = 1
    THEN IF ~allow_failure THEN Exc("InterruptedError") ELSE NoneRes
    ELSE Val(sample)

\* KrakenLikeCommand._process.work
work(sample) ==
    { [file |-> e, res |-> [WorkResult(sample, rc) EXCEPT !.rc = rc]] :
          e \in Effects, rc \in ExitCodes }

\* utils.clean_kraken_filename(inp): the file rewritten, or an error; a file
\* that is not there cannot be rewritten
clean_kraken_filename(inp) ==
    IF Exists(fs, inp)
    THEN { [file |-> "good", res |-> Val(inp)],
           [file |-> "keep", res |-> Exc("Exception")] }
    ELSE { [file |-> "keep", res |-> Exc("Exception")] }

\* remove reporting success and leaving the file in place
removeKeeps(file) ==
    { [file |-> "keep", res |-> NoneRes] }

\* os.remove(file)
remove(file) ==
    IF Exists(fs, file)
    THEN { [file |-> "none", res |-> NoneRes],
           [file |-> "keep", res |-> Exc("OSError")] }
    ELSE { [file |-> "keep", res |-> Exc("FileNotFoundError")] }

\* ExtractZoneAltoCommand._process.custom_alto_zone_extraction
custom_alto_zone_extraction(input_file) ==
    { [file |-> "good", res |-> NoneRes],     \* content: written
      [file |-> "keep", res |-> NoneRes] }    \* no content: nothing written

WorkFunction(inp) ==
    CASE kind = IMG -> download(inp)
      [] kind = MAN -> download_iiif_manifest(inp)
      [] kind = KRA -> work(inp)
      [] kind = CLN -> clean_kraken_filename(inp)
      [] kind = CLR -> remove(inp)
      [] kind = EXT -> custom_alto_zone_extraction(inp)

Running == {j \in 1..Len(fut) : fut[j] = "RUNNING"}
Pending == {j \in 1..Len(fut) : fut[j] = "PENDING"}
Failed == {j \in 1..Len(fut) : fut[j] = "FINISHED" /\ res[j].tag = "exc"}

\* ThreadPoolExecutor: how many items the pool runs at once
Capacity == workers

\* future.cancel() on every future that has not started
CancelPending(f) == [j \in 1..Len(f) |-> IF f[j] = "PENDING" THEN "CANCELLED" ELSE f[j]]

\* a pool thread takes the oldest queued item and starts the work function on it;
\* a download opens its target file
WorkerStart ==
    /\ Pending # {}
    /\ Cardinality(Running) < Capacity
    /\ LET k == CHOOSE j \in Pending : \A m \in Pending : j <= m
       IN /\ fut' = [fut EXCEPT ![k] = "RUNNING"]
          /\ IF kind = IMG
             THEN /\ fs' = [fs EXCEPT ![rename_download(inputs[k])] = "bad"]
                  /\ fresh' = FALSE
             ELSE UNCHANGED <<fs, fresh>>
    /\ lateStart' = (lateStart \/ Failed # {} \/ pc = "intr")
    /\ UNCHANGED <<cfgVars, objVars, pc, ret, raised, inputs, res, nxt, done,
                   interrupted, calls, ntasks, nchanges, lastOp, nothing, prev,
                   changed, first>>

\* the work function of a running item ends
WorkerFinish ==
    \E k \in Running :
        \E o \in WorkFunction(inputs[k]) :
            /\ fut' = [fut EXCEPT ![k] = "FINISHED"]
            /\ res' = [res EXCEPT ![k] = o.res]
            /\ fs' = IF o.file = "keep" THEN fs
                     ELSE [fs EXCEPT ![Target(kind, inputs[k])] = o.file]
            /\ fresh' = (fresh /\ fs' = fs)
            /\ UNCHANGED <<cfgVars, objVars, pc, ret, raised, inputs, nxt, done,
                           interrupted, lateStart, calls, ntasks, nchanges, lastOp,
                           nothing, prev, changed, first>>

\* the body of `for file in executor.map(...)` for one result, per variant:
\* what it appends to done and to _output_files
TakeDone(r) ==
    CASE kind = IMG -> IF r.tag = "val" THEN Append(done, r.v) ELSE done
      [] kind \in {MAN, CLN} -> Append(done, r.v)
      [] OTHER -> done

TakeOutput(r) ==
    IF kind = KRA /\ r.tag = "val" THEN Append(_output_files, r.v) ELSE _output_files

\* the caller takes the next result of executor.map, in input order; a result
\* that is an exception is raised in the caller, and the iterator, closed by
\* it, cancels the futures not yet started.  KrakenLikeCommand holds its pool
\* outside any `with`, so the exception leaves process() at once; the other
\* variants first leave their `with` block, which joins the pool.
MainNext ==
    /\ pc = "map"
    /\ nxt <= Len(inputs)
    /\ fut[nxt] = "FINISHED"
    /\ LET r == res[nxt]
       IN IF r.tag = "exc"
          THEN /\ fut' = CancelPending(fut)
               /\ raised' = r.v[1]
               /\ IF kind = KRA
                  THEN pc' = "raised" /\ ret' = "raise" /\ lastOp' = "process"
                  ELSE pc' = "join" /\ UNCHANGED <<ret, lastOp>>
               /\ UNCHANGED <<nxt, done, _output_files>>
          ELSE /\ nxt' = nxt + 1
               /\ done' = TakeDone(r)
               /\ _output_files' = TakeOutput(r)
               /\ UNCHANGED <<fut, raised, pc, ret, lastOp>>
    /\ UNCHANGED <<cfgVars, workers, _checked_files, fs, inputs, res, interrupted,
                   lateStart, calls, ntasks, nchanges, nothing, prev, changed, fresh,
                   first>>

\* what _process returns when its loop ends: KrakenLikeCommand._process has no
\* return statement
ProcessResult == IF kind = KRA THEN "None" ELSE "True"

\* the loop over executor.map has taken every result: _process ends, and its
\* locals with it
MainReturn ==
    /\ pc = "map"
    /\ nxt > Len(inputs)
    /\ _output_files' = IF kind = IMG THEN _output_files \o done ELSE _output_files
    /\ ret' = ProcessResult
    /\ pc' = "idle"
    /\ lastOp' = "process"
    /\ ResetPool
    /\ lateStart' = FALSE
    /\ UNCHANGED <<cfgVars, workers, _checked_files, fs, raised, calls,
                   ntasks, nchanges, nothing, prev, changed, fresh, first>>

\* a KeyboardInterrupt reaches the caller thread inside the `with` block of
\* DownloadIIIFImageTask._process; the pool threads go on running
Interrupt ==
    /\ kind = IMG
    /\ pc = "map"
    /\ interrupted' = TRUE
    /\ pc' = "intr"
    /\ UNCHANGED <<cfgVars, objVars, fs, ret, raised, inputs, fut, res, nxt, done,
                   lateStart, histVars>>

\* the exception unwinds the loop: the iterator of executor.map is closed, which
\* cancels the futures not yet started, and the `with` block's exit joins the pool
CloseIterator ==
    /\ pc = "intr"
    /\ fut' = CancelPending(fut)
    /\ pc' = "join"
    /\ UNCHANGED <<cfgVars, objVars, fs, ret, raised, inputs, res, nxt, done,
                   interrupted, lateStart, histVars>>

\* RemovePartial with its test inverted: `if url in done`
RemovePartialInverted(files, ins, dn) ==
    [p \in DOMAIN files |->
        IF \E j \in 1..Len(ins) : ins[j][1] \in Range(dn) /\ rename_download(ins[j]) = p
        THEN "none" ELSE files[p]]

\* the handler of `except KeyboardInterrupt`: every input whose url is not in
\* done has its target removed
RemovePartial(files, ins, dn) ==
    [p \in DOMAIN files |->
        IF \E j \in 1..Len(ins) : ins[j][1] \notin Range(dn) /\ rename_download(ins[j]) = p
        THEN "none" ELSE files[p]]

\* executor.shutdown(wait=True) returns only when no work function is running
Joined == Running = {}

\* the `with` block is left: after an interrupt the handler runs and _process
\* returns True; after an exception of a work function, process() raises it.
\* inputs and done stay on record as what the call was given and what it
\* confirmed done.
JoinReturn ==
    /\ pc = "join"
    /\ Joined
    /\ IF interrupted
       THEN /\ fs' = RemovePartial(fs, inputs, done)
            /\ _output_files' = _output_files \o done
            /\ ret' = "True"
            /\ pc' = "idle"
       ELSE /\ ret' = "raise"
            /\ pc' = "raised"
            /\ UNCHANGED <<fs, _output_files>>
    /\ fresh' = (fresh /\ fs' = fs)
    /\ lastOp' = "process"
    /\ fut' = <<>> /\ res' = <<>> /\ nxt' = 1
    /\ UNCHANGED <<cfgVars, workers, _checked_files, raised, inputs, done, interrupted,
                   lateStart, calls, ntasks, nchanges, nothing, prev, changed, first>>

\* ------------------------------------------------------- environment
\* somebody else creates, removes or damages a file while no call is running
ExternalChange ==
    /\ pc = "idle"
    /\ nchanges < MaxExt
    /\ \E p \in Watched : \E c \in FileStates(p) \ {fs[p]} :
           fs' = [fs EXCEPT ![p] = c]
    /\ nchanges' = nchanges + 1
    /\ changed' = TRUE
    /\ fresh' = FALSE
    /\ UNCHANGED <<cfgVars, objVars, pc, ret, raised, poolVars, calls, ntasks,
                   lastOp, nothing, prev, first>>

\* ----------------------------------------------------- specifications
New == \E mp \in 0..MaxWorkers : Construct(mp)

Next ==
    \/ New
    \/ ProcessCall
    \/ WorkerStart
    \/ WorkerFinish
    \/ MainNext
    \/ MainReturn
    \/ Interrupt
    \/ CloseIterator
    \/ JoinReturn

\* tasks that are constructed and run with process(), any number of workers,
\* nobody else touching the files
Spec == Init /\ [][Next]_vars

\* the same, over inputs that share an output path
SpecCollide == InitCollide /\ [][Next]_vars

\* construction and check() alone, over every configuration
NextCheck == New \/ Check \/ ExternalChange

SpecCheck == InitAny /\ [][NextCheck]_vars

\* ---------------------------------------------------------------- claims
\* a call of process() on this object has returned and nothing happened since
Returned == pc = "idle" /\ lastOp = "process"

\* C1: when process() is called twice on one task with no external change in
\* between, the second call takes the "Nothing to process" path and leaves
\* output_files as the first call left it.
C1_Idempotence ==
    (Returned /\ prev.op = "process" /\ prev.quiet)
        => (nothing /\ output_files = prev.out)

\* C2: in a process() call every input has been evaluated by check() before any
\* work item exists, the items handed to the work function are exactly the
\* inputs evaluated as not done, and with none pending no worker is invoked
\* and process() returns True.
C2_CheckPrecedesWork ==
    /\ (pc \in {"map", "intr", "join"} \/ Returned) =>
           DOMAIN _checked_files = Range(input_files)
    /\ pc \in {"map", "intr", "join"} =>
           /\ Range(inputs) = {x \in Range(input_files) : ~_checked_files[x]}
           /\ Len(fut) = Len(inputs)
    /\ (Returned /\ \A x \in Range(input_files) : _checked_files[x]) => nothing
    /\ nothing => (Returned /\ ret = "True" /\ fut = <<>> /\ inputs = <<>>)

C2_Witness ==
    /\ pc = "map"
    /\ Running # {}
    /\ \E x \in Range(input_files) : _checked_files[x]

\* C3: check() returns True exactly when every input is marked done in the
\* CompletionMap that this call filled.
C3_CheckResult ==
    (pc = "idle" /\ lastOp = "check")
        => (ret = "True" <=> \A x \in Range(input_files) : _checked_files[x])

\* C4: a second check() in a row, the filesystem unchanged, leaves the
\* filesystem, the CompletionMap and output_files as the first one left them.
C4_CheckIdempotent ==
    (pc = "idle" /\ lastOp = "check" /\ prev.op = "check" /\ prev.quiet /\ ~changed)
        => (fs = prev.fs /\ _checked_files = prev.cf /\ output_files = prev.out)

\* the output artifact of x is in place: present, and valid where the variant
\* validates content or filename; for the deletion variant, absent
ArtifactInPlace(x) ==
    IF kind = CLR THEN ~Exists(fs, x)
    ELSE /\ Exists(fs, Target(kind, x))
         /\ (kind = CLN \/ (kind = KRA /\ check_content)) => fs[Target(kind, x)] = "good"

\* the downstream file of x satisfies the injected predicate, stated on the files
DownstreamSatisfied(x) ==
    /\ kind = IMG
    /\ downstream_check # "none"
    /\ ~Exists(fs, rename_download(x))
    /\ Exists(fs, DownstreamFile(x))
    /\ downstream_check = "content" => fs[DownstreamFile(x)] = "good"

\* C5, as claimed: right after check(), every input marked done has its output
\* artifact in place.
C5_PartitionCorrect ==
    (pc = "idle" /\ lastOp = "check" /\ fresh)
        => \A x \in Range(input_files) : _checked_files[x] => ArtifactInPlace(x)

\* C5, amended: right after check(), every input marked done has its output
\* artifact in place or, for the network-fetch variant with a downstream
\* check, has no primary output and satisfies the downstream predicate.
C5_PartitionCorrectAmended ==
    (pc = "idle" /\ lastOp = "check" /\ fresh)
        => \A x \in Range(input_files) :
               _checked_files[x] => (ArtifactInPlace(x) \/ DownstreamSatisfied(x))

C5_Witness ==
    /\ pc = "idle" /\ lastOp = "check" /\ fresh
    /\ \E x, y \in Range(input_files) :
           /\ _checked_files[x] /\ DownstreamSatisfied(x)
           /\ ~_checked_files[y]

\* the pending item ins[j] is in the recorded done list
Recorded(j) ==
    \/ rename_download(inputs[j]) \in Range(done)
    \/ inputs[j][1] \in Range(done)

\* C6: when process() returns after a KeyboardInterrupt in
\* DownloadIIIFImageTask._process, no file exists at the output path of a
\* pending item that is not in the recorded done list, and a check() then
\* reports each such item as not done.
C6_InterruptSafety ==
    (pc = "idle" /\ interrupted) =>
        \A j \in 1..Len(inputs) :
            ~Recorded(j) =>
                /\ ~Exists(fs, rename_download(inputs[j]))
                /\ ~check.cf[inputs[j]]

C6_Witness ==
    /\ pc = "idle" /\ interrupted
    /\ done # <<>>
    /\ \E j \in 1..Len(inputs) : ~Recorded(j)

\* C7: with allow_failure, once every result of the batch has been taken,
\* every pending item has run and _output_files holds a pending item exactly
\* when its command exited with code zero.
C7_TolerantOutput ==
    (kind = KRA /\ allow_failure /\ pc = "map" /\ nxt > Len(inputs)) =>
        \A j \in 1..Len(inputs) :
            /\ fut[j] = "FINISHED"
            /\ (inputs[j] \in Range(_output_files)) <=> (res[j].rc = 0)

\* C8: without allow_failure, no work item is started after an item of the
\* batch has failed.
C8_FailFast ==
    (kind = KRA /\ ~allow_failure) => ~lateStart

\* the template holds the output placeholder
HasOut == ~command.isNone /\ Contains(command.text, OutPlaceholder)

\* C9: a KrakenLikeCommand whose template lacks "$out" (or has no template)
\* never gets past its constructor, which raises: no call and no work item
\* ever exists for it; with "$out" the constructor does not raise.
C9_ConstructorValidates ==
    kind = KRA =>
        /\ ~HasOut =>
               /\ pc \in {"new", "raised"}
               /\ ntasks > 0 => (pc = "raised" /\ raised \in {"NameError", "TypeError"})
               /\ calls = 0 /\ _checked_files = EmptyMap /\ fut = <<>>
        /\ HasOut => raised \notin {"NameError", "TypeError"}
        /\ (HasOut /\ ntasks > 0) => pc # "new"

C9_Witness ==
    /\ kind = KRA /\ pc = "raised" /\ raised = "NameError"
    /\ Contains(command.text, <<"$">>)

\* the first process() of a task built anew over the inputs of a task whose
\* process() had returned
Resumed == Returned /\ first.set /\ prev.op = ""

IndexRows(j) ==
    IF fs[manifest_rename_download(input_files[j])] # "none"
    THEN Rows(input_files[j]) ELSE <<>>

RECURSIVE RowsFrom(_)
\* the rows of the inputs from the j-th on, in input order
RowsFrom(j) ==
    IF j > Len(input_files) THEN <<>> ELSE IndexRows(j) \o RowsFrom(j + 1)

\* a new task object has just been built over the inputs of one that had run
JustRebuilt == pc = "idle" /\ lastOp = "" /\ first.set

\* C11: in every state of a DownloadIIIFManifestTask, output_files is the
\* concatenation, in input order, of the rows of each input whose index file
\* exists on disk; a new task object over the same inputs, which has no record
\* of any run, reports what the object that ran reported.
C11_ManifestOutput ==
    kind = MAN =>
        /\ output_files = RowsFrom(1)
        /\ JustRebuilt => output_files = first.out

C11_Witness ==
    /\ kind = MAN /\ JustRebuilt /\ first.worked
    /\ _checked_files = EmptyMap
    /\ Len(input_files) = 2
    /\ \E j \in 1..2 : IndexRows(j) = <<>>
    /\ output_files # <<>>

\* every input file existed when the last process() call began
AllExisted == \A x \in Range(input_files) : prev.fs[x] # "none"

\* C12: for a ClearFileCommand whose input files all exist, after process()
\* returns every input file is absent and a following check() marks every
\* input done and returns True; output_files is empty in every state.
C12_Deletion ==
    kind = CLR =>
        /\ output_files = <<>>
        /\ (Returned /\ AllExisted) =>
               /\ \A x \in Range(input_files) : fs[x] = "none"
               /\ \A x \in Range(input_files) : check.cf[x]
               /\ check.all_done

C12_Witness ==
    /\ kind = CLR /\ Returned /\ AllExisted /\ ~nothing
    /\ Cardinality(Range(input_files)) = 2

\* C13: in the cleanup and deletion variants an error of the work function on
\* one item does not abort the batch: no pending item is left unrun and
\* process() does not raise.
C13_NoAbort ==
    kind \in {CLN, CLR} =>
        /\ \A j \in 1..Len(fut) : fut[j] # "CANCELLED"
        /\ pc # "raised"

\* C14: when process() has returned, the CompletionMap marks done every input
\* whose output artifact is in place, the items this call produced included,
\* with no further check().
C14_MapExtended ==
    Returned =>
        \A x \in Range(input_files) :
            ArtifactInPlace(x) => (x \in DOMAIN _checked_files /\ _checked_files[x])

\* C15: when a KeyboardInterrupt has arrived during
\* DownloadIIIFImageTask._process, no download is started after it, and
\* process() returns True with the items confirmed done before the interrupt
\* kept in _output_files.
C15_EarlyTermination ==
    (kind = IMG /\ interrupted) =>
        /\ ~lateStart
        /\ pc # "raised"
        /\ pc = "idle" =>
               /\ ret = "True"
               /\ Range(done) \subseteq Range(_output_files)

\* C16: within one process() call no two work items that run at the same time
\* target the same output path, whatever the input set.
C16_DisjointPaths ==
    \A i, j \in Running :
        i # j => Target(kind, inputs[i]) # Target(kind, inputs[j])

\* on the files f, the image of x is absent and the file the downstream stage
\* leaves for x satisfies the injected predicate
ChainedDone(f, x) ==
    /\ f[rename_download(x)] = "none"
    /\ f[DownstreamFile(x)] # "none"
    /\ downstream_check = "content" => f[DownstreamFile(x)] = "good"

\* C17: for a DownloadIIIFImageTask with a downstream check, check() marks an
\* input without primary output done exactly when the downstream predicate
\* holds for it, and returns False only if some input has neither; process()
\* does not submit an input that the predicate satisfied.
C17_ChainedCheck ==
    (kind = IMG /\ downstream_check # "none") =>
        /\ pc = "idle" =>
               /\ \A x \in Range(input_files) :
                      ~Exists(fs, rename_download(x)) =>
                          (check.cf[x] <=> ChainedDone(fs, x))
               /\ ~check.all_done =>
                      \E x \in Range(input_files) :
                          ~Exists(fs, rename_download(x)) /\ ~ChainedDone(fs, x)
        /\ pc \in {"map", "intr", "join"} =>
               \A x \in Range(input_files) :
                   ChainedDone(prev.fs, x) => (_checked_files[x] /\ x \notin Range(inputs))
        /\ (Returned /\ \A x \in Range(input_files) : ChainedDone(prev.fs, x))
               => nothing

C17_Witness ==
    /\ kind = IMG /\ downstream_check = "content"
    /\ pc = "map" /\ Running # {}
    /\ \E x \in Range(input_files) : ChainedDone(prev.fs, x)
    /\ \E x \in Range(input_files) :
           prev.fs[rename_download(x)] = "none" /\ prev.fs[DownstreamFile(x)] = "bad"

\* the completion oracle of the variant, evaluated on the files as they are
Oracle(x) == ArtifactInPlace(x) \/ DownstreamSatisfied(x)

\* the last call was a check() that followed a check() and an external change
\* of the filesystem between the two
Rechecked ==
    pc = "idle" /\ lastOp = "check" /\ fresh /\ prev.op = "check" /\ ~prev.quiet

\* C18: when the filesystem changed between two check() calls on one task,
\* after the second call the CompletionMap has an entry for every input and
\* each entry equals the completion oracle on the filesystem of that call.
C18_NeverStale ==
    Rechecked =>
        /\ DOMAIN _checked_files = Range(input_files)
        /\ \A x \in Range(input_files) : _checked_files[x] <=> Oracle(x)

C18_Witness ==
    /\ Rechecked
    /\ \E x \in Range(input_files) : prev.cf[x] /\ ~_checked_files[x]
    /\ \E x \in Range(input_files) : _checked_files[x]

\* C19: for the variants that produce files, once process() has returned
\* output_files can be read and every path it lists exists on the filesystem.
C19_OutputsExist ==
    (Returned /\ kind \in {IMG, KRA, CLN, EXT}) =>
        /\ output_files # IndexError
        /\ \A j \in 1..Len(output_files) :
               output_files[j] \in DOMAIN fs /\ Exists(fs, output_files[j])

\* C20: whenever process() completes without raising, with pending items or
\* without, it returns True.
C20_ReturnsTrue ==
    Returned => ret = "True"

====
